---- MODULE Spec2Model ----
(***************************************************************************)
(* Model of the activation / deactivation engine of nginx-manager          *)
(* (src/nginx/manager.py, class NginxManager) over an abstract file system *)
(* made of the sites-available directory, the sites-enabled directory, the *)
(* per-site log directories and the backup entries of sites-enabled.       *)
(*                                                                         *)
(* write_and_enable and delete_config are modelled statement group by      *)
(* statement group: every file-system call of the source is one step that  *)
(* either succeeds or raises, every external command (nginx -t,            *)
(* nginx -s reload, ln -sf) is one step that returns True or False.        *)
(* The program is single threaded: one call runs at a time (pc # "idle").  *)
(***************************************************************************)
EXTENDS Naturals, Sequences, FiniteSets, TLC

(* ---------------------------------------------------------------------- *)
(* Bounds and input sets                                                   *)
(* ---------------------------------------------------------------------- *)

\* number of write_and_enable / delete_config calls issued in one behaviour
MaxCalls == 2

\* domain names handed to the manager, as sequences of characters
Domains == { <<"a">>, <<"b", "/">>, <<"b", "_">> }

\* configuration texts handed to write_and_enable; a text is the sequence of
\* its lines, a line the sequence of its tokens
Texts == { << <<"T1">> >>, << <<"T2">> >> }

\* characters matched by \w in the model's alphabet: Python matches str
\* patterns with Unicode classes, so \w takes every letter and digit of any
\* script and the underscore
AsciiWordChars == { "a", "b", "c", "f", "i", "o", "x", "A", "Z", "0", "9", "_" }
WordChars == AsciiWordChars \cup { "é", "ß" }

(* ---------------------------------------------------------------------- *)
(* Pure helpers                                                            *)
(* ---------------------------------------------------------------------- *)

\* mutant of _sanitize_domain: the pattern is compiled with re.ASCII, so a
\* letter outside ASCII is replaced as well
Mut_sanitize_domain(domain) ==
    [i \in DOMAIN domain |->
        IF domain[i] \in AsciiWordChars \cup {".", "-"} THEN domain[i] ELSE "_"]

\* re.sub(r'[^\w.-]', '_', domain)
_sanitize_domain(domain) ==
    [i \in DOMAIN domain |->
        IF domain[i] \in WordChars \cup {".", "-"} THEN domain[i] ELSE "_"]

Keys == { _sanitize_domain(d) : d \in Domains }

\* a path that holds no regular file / a regular file with the given content
NoFile == [exists |-> FALSE, content |-> <<>>]
File(c) == [exists |-> TRUE, content |-> c]

\* dest.write_text(full_conf + "\n") stores the text followed by a newline:
\* split at newlines, the stored text ends with one more, empty, line
Written(full_conf) == File(Append(full_conf, <<>>))

\* content of a regular (non-symlink) file found at an enabled path
RegularContent == << <<"manual">> >>

\* content of a backup file left at <key>.conf.bak by an earlier replacement
OlderBackupContent == << <<"older">> >>

\* kinds of entry at <sites_enabled>/<key>.conf:
\*   "none"  no entry
\*   "rel"   symlink ../sites-available/<key>.conf  (relative target)
\*   "abs"   symlink /etc/nginx/sites-available/<key>.conf (absolute target)
\*   "file"  regular file (anomaly)
\*   "ext"   symlink to an existing file outside sites-available
EnabledKinds == { "none", "rel", "abs", "file", "ext" }

VARIABLES
    avail,       \* [Keys -> file]  <sites_available>/<key>.conf
    enabled,     \* [Keys -> EnabledKinds]  <sites_enabled>/<key>.conf
    backup,      \* [Keys -> file]  <sites_enabled>/<key>.conf.bak
    logdir,      \* [Keys -> BOOLEAN]  <logs_dir>/<key>/ exists
    pc,          \* position of the running call, "idle" between calls
    cur,         \* the running (or last completed) call: op, domain, key, text
    result,      \* "none" while running, "True" / "False" returned, "raised"
    why,         \* which return statement ended the last call
    valCalls,    \* nginx -t invocations in the current call
    valOk,       \* outcome of the nginx -t invocation of the current call
    reloadCalls, \* nginx -s reload invocations in the current call
    reloadOk,    \* outcome of the nginx -s reload invocation of the current call
    attempts,    \* link creation attempts of the current call, in order
    raisedIn,    \* step whose exception reached the outer handler, or ""
    pre,         \* file system when the current call started
    prev,        \* the call completed before the current one (its end state is pre)
    calls        \* number of calls issued so far

\* the configuration builder and the registry, exercised on their own
VARIABLES
    stage,       \* position of the create / list flow, "off" when not run
    site,        \* the answers collected by create_config
    full_conf,   \* the text create_config hands to write_and_enable
    artifact,    \* the entry written to sites-available for the site
    listing,     \* outcome of list_configs
    rawname,     \* a config name typed at the delete / show prompt
    safename     \* the key _sanitize_domain makes of rawname

rvars == <<stage, site, full_conf, artifact, listing, rawname, safename>>

fsvars == <<avail, enabled, backup, logdir>>
ghost == <<valCalls, valOk, reloadCalls, reloadOk, attempts, raisedIn>>
mvars == <<avail, enabled, backup, logdir, pc, cur, result, why,
           valCalls, valOk, reloadCalls, reloadOk, attempts, raisedIn, pre, prev, calls>>
vars == <<mvars, rvars>>

FS == [avail |-> avail, enabled |-> enabled, backup |-> backup, logdir |-> logdir]

IsSymlink(e) == e \in {"rel", "abs", "ext"}

\* Path.exists() follows symlinks: a dangling symlink does not "exist"
LinkExists(k) ==
    \/ enabled[k] \in {"file", "ext"}
    \/ enabled[k] \in {"rel", "abs"} /\ avail[k].exists

\* an enabled entry that is a symlink whose target is missing
Dangling(k) == enabled[k] \in {"rel", "abs"} /\ ~avail[k].exists

NoCall == [op |-> "none", domain |-> <<>>, key |-> <<>>, text |-> <<>>]

(* ---------------------------------------------------------------------- *)
(* Initial states: each site is absent, inactive, active, or has an        *)
(* anomalous entry at its enabled path (a regular file, possibly with a    *)
(* backup left by an earlier replacement); no enabled reference dangles.   *)
(* ---------------------------------------------------------------------- *)
NoSite == [domain |-> <<>>]
NoListing == [raised |-> FALSE, result |-> <<>>, seen |-> <<>>]
NoArtifact == [name |-> "", kind |-> "none", lines |-> <<>>]

\* the builder and the registry are not run
RenderOff ==
    /\ stage = "off"
    /\ site = NoSite
    /\ full_conf = <<>>
    /\ artifact = NoArtifact
    /\ listing = NoListing
    /\ rawname = <<>>
    /\ safename = <<>>

Init ==
    /\ RenderOff
    /\ avail \in [Keys -> {NoFile, Written(<< <<"T1">> >>)}]
    /\ enabled \in [Keys -> {"none", "rel", "file", "ext"}]
    /\ \A k \in Keys : enabled[k] = "rel" => avail[k].exists
    /\ backup \in [Keys -> {NoFile, File(OlderBackupContent)}]
    /\ \A k \in Keys : backup[k].exists => enabled[k] = "file"
    /\ logdir = [k \in Keys |-> FALSE]
    /\ pc = "idle"
    /\ cur = NoCall
    /\ result = "none"
    /\ why = ""
    /\ valCalls = 0
    /\ valOk = FALSE
    /\ reloadCalls = 0
    /\ reloadOk = FALSE
    /\ attempts = <<>>
    /\ raisedIn = ""
    /\ pre = FS
    /\ prev = [op |-> "none", domain |-> <<>>, text |-> <<>>, result |-> "none",
               why |-> ""]
    /\ calls = 0

\* the call returns r through the return statement named w
Return(r, w) ==
    /\ pc' = "idle"
    /\ result' = r
    /\ why' = w

\* an exception raised in step s reaches the handler of lines 153-157
Raise(s) ==
    /\ pc' = "except"
    /\ raisedIn' = s
    /\ UNCHANGED <<result, why>>

Goto(p) ==
    /\ pc' = p
    /\ UNCHANGED <<result, why>>

StartCall(op, d, t, p) ==
    /\ pc = "idle"
    /\ calls < MaxCalls
    /\ calls' = calls + 1
    /\ prev' = [op |-> cur.op, domain |-> cur.domain, text |-> cur.text,
                result |-> result, why |-> why]
    /\ cur' = [op |-> op, domain |-> d, key |-> _sanitize_domain(d), text |-> t]
    /\ pre' = FS
    /\ pc' = p
    /\ result' = "none"
    /\ why' = ""
    /\ valCalls' = 0
    /\ valOk' = FALSE
    /\ reloadCalls' = 0
    /\ reloadOk' = FALSE
    /\ attempts' = <<>>
    /\ raisedIn' = ""
    /\ UNCHANGED <<fsvars, rvars>>

(* ---------------------------------------------------------------------- *)
(* write_and_enable                                                        *)
(* ---------------------------------------------------------------------- *)

Call_write_and_enable ==
    \E d \in Domains, t \in Texts : StartCall("write_and_enable", d, t, "ensure_directories")

\* lines 72-73: ensure_directories() returns False when a mkdir raises
ensure_directories ==
    /\ pc = "ensure_directories"
    /\ \/ Goto("mkdir_log")
       \/ Return("False", "dirs")
    /\ UNCHANGED <<fsvars, cur, ghost, pre, prev, calls, rvars>>

\* lines 79-80: log_dir.mkdir(exist_ok=True, parents=True)
MkdirLog ==
    /\ pc = "mkdir_log"
    /\ \/ /\ logdir' = [logdir EXCEPT ![cur.key] = TRUE]
          /\ Goto("write_text")
          /\ UNCHANGED raisedIn
       \/ /\ Raise("mkdir_log")
          /\ UNCHANGED logdir
    /\ UNCHANGED <<avail, enabled, backup, cur, valCalls, valOk, reloadCalls,
                   reloadOk, attempts, pre, prev, calls, rvars>>

\* mutant of WriteText: the file is opened for appending, so an existing
\* artifact keeps its old text in front of the new one
MutWriteText ==
    /\ pc = "write_text"
    /\ \/ /\ avail' = [avail EXCEPT ![cur.key] =
                          File(avail[cur.key].content \o Written(cur.text).content)]
          /\ Goto("remove_existing")
          /\ UNCHANGED raisedIn
       \/ /\ \E f \in {avail[cur.key], File(<<>>)} :
                avail' = [avail EXCEPT ![cur.key] = f]
          /\ Raise("write_text")
    /\ UNCHANGED <<enabled, backup, logdir, cur, valCalls, valOk, reloadCalls,
                   reloadOk, attempts, pre, prev, calls, rvars>>

\* line 82: dest.write_text(full_conf + "\n"); a failing write leaves the
\* file as it was (open failed) or truncated (write failed after open)
WriteText ==
    /\ pc = "write_text"
    /\ \/ /\ avail' = [avail EXCEPT ![cur.key] = Written(cur.text)]
          /\ Goto("remove_existing")
          /\ UNCHANGED raisedIn
       \/ /\ \E f \in {avail[cur.key], File(<<>>)} :
                avail' = [avail EXCEPT ![cur.key] = f]
          /\ Raise("write_text")
    /\ UNCHANGED <<enabled, backup, logdir, cur, valCalls, valOk, reloadCalls,
                   reloadOk, attempts, pre, prev, calls, rvars>>

\* mutant of RemoveExisting: a regular file found at the enabled path is
\* deleted like a symlink instead of being moved to <key>.conf.bak
MutRemoveExistingDelete ==
    /\ pc = "remove_existing"
    /\ IF LinkExists(cur.key)
       THEN \/ /\ enabled' = [enabled EXCEPT ![cur.key] = "none"]
               /\ UNCHANGED <<backup, raisedIn>>
               /\ IF avail[cur.key].exists
                  THEN Goto("symlink_rel")
                  ELSE Return("False", "nodest")
            \/ /\ Raise("unlink_link")
               /\ UNCHANGED <<enabled, backup>>
       ELSE /\ UNCHANGED <<enabled, backup, raisedIn>>
            /\ IF avail[cur.key].exists
               THEN Goto("symlink_rel")
               ELSE Return("False", "nodest")
    /\ UNCHANGED <<avail, logdir, cur, valCalls, valOk, reloadCalls,
                   reloadOk, attempts, pre, prev, calls, rvars>>

\* mutant of RemoveExisting: every existing entry, symlink included, is
\* moved to <key>.conf.bak instead of only regular files
MutRemoveExisting ==
    /\ pc = "remove_existing"
    /\ IF LinkExists(cur.key)
       THEN \/ /\ enabled' = [enabled EXCEPT ![cur.key] = "none"]
               /\ backup' = [backup EXCEPT ![cur.key] =
                     IF IsSymlink(enabled[cur.key])
                     THEN File(<< <<"symlink">> >>) ELSE File(RegularContent)]
               /\ UNCHANGED raisedIn
               /\ IF avail[cur.key].exists
                  THEN Goto("symlink_rel")
                  ELSE Return("False", "nodest")
            \/ /\ Raise("move_backup")
               /\ UNCHANGED <<enabled, backup>>
       ELSE /\ UNCHANGED <<enabled, backup, raisedIn>>
            /\ IF avail[cur.key].exists
               THEN Goto("symlink_rel")
               ELSE Return("False", "nodest")
    /\ UNCHANGED <<avail, logdir, cur, valCalls, valOk, reloadCalls,
                   reloadOk, attempts, pre, prev, calls, rvars>>

\* lines 85-98: an existing symlink at the enabled path is unlinked, an
\* existing regular file is moved to <key>.conf.bak; then dest must exist
RemoveExisting ==
    /\ pc = "remove_existing"
    /\ IF LinkExists(cur.key)
       THEN IF IsSymlink(enabled[cur.key])
            THEN \/ /\ enabled' = [enabled EXCEPT ![cur.key] = "none"]
                    /\ UNCHANGED <<backup, raisedIn>>
                    /\ IF avail[cur.key].exists
                       THEN Goto("symlink_rel")
                       ELSE Return("False", "nodest")
                 \/ /\ Raise("unlink_link")
                    /\ UNCHANGED <<enabled, backup>>
            ELSE \/ /\ enabled' = [enabled EXCEPT ![cur.key] = "none"]
                    /\ backup' = [backup EXCEPT ![cur.key] = File(RegularContent)]
                    /\ UNCHANGED raisedIn
                    /\ IF avail[cur.key].exists
                       THEN Goto("symlink_rel")
                       ELSE Return("False", "nodest")
                 \/ /\ Raise("move_backup")
                    /\ UNCHANGED <<enabled, backup>>
       ELSE /\ UNCHANGED <<enabled, backup, raisedIn>>
            /\ IF avail[cur.key].exists
               THEN Goto("symlink_rel")
               ELSE Return("False", "nodest")
    /\ UNCHANGED <<avail, logdir, cur, valCalls, valOk, reloadCalls,
                   reloadOk, attempts, pre, prev, calls, rvars>>

\* one link creation attempt by method m, recorded with its outcome
Attempt(m, ok) == attempts' = Append(attempts, [method |-> m, ok |-> ok])

\* lines 100-103: os.symlink(relative_path, link); os.symlink raises
\* FileExistsError when an entry is already present at the link path
SymlinkRel ==
    /\ pc = "symlink_rel"
    /\ \/ /\ enabled[cur.key] = "none"
          /\ enabled' = [enabled EXCEPT ![cur.key] = "rel"]
          /\ Attempt("rel", TRUE)
          /\ Goto("verify")
       \/ /\ Attempt("rel", FALSE)
          /\ Goto("symlink_abs")
          /\ UNCHANGED enabled
    /\ UNCHANGED <<avail, backup, logdir, cur, valCalls, valOk, reloadCalls,
                   reloadOk, raisedIn, pre, prev, calls, rvars>>

\* lines 104-108: os.symlink(dest.absolute(), link)
SymlinkAbs ==
    /\ pc = "symlink_abs"
    /\ \/ /\ enabled[cur.key] = "none"
          /\ enabled' = [enabled EXCEPT ![cur.key] = "abs"]
          /\ Attempt("abs", TRUE)
          /\ Goto("verify")
       \/ /\ Attempt("abs", FALSE)
          /\ Goto("symlink_ln")
          /\ UNCHANGED enabled
    /\ UNCHANGED <<avail, backup, logdir, cur, valCalls, valOk, reloadCalls,
                   reloadOk, raisedIn, pre, prev, calls, rvars>>

\* mutant of SymlinkLn: when ln -sf fails too, the call returns False but
\* leaves the artifact it wrote
MutSymlinkLn ==
    /\ pc = "symlink_ln"
    /\ \/ /\ enabled' = [enabled EXCEPT ![cur.key] = "abs"]
          /\ Attempt("ln", TRUE)
          /\ Goto("verify")
       \/ /\ Attempt("ln", FALSE)
          /\ Return("False", "link")
          /\ UNCHANGED enabled
    /\ UNCHANGED <<avail, backup, logdir, cur, valCalls, valOk, reloadCalls,
                   reloadOk, raisedIn, pre, prev, calls, rvars>>

\* lines 109-120: run_command(["ln", "-sf", dest, link]); when it fails the
\* handler removes dest and returns False (its unlink may raise in turn)
SymlinkLn ==
    /\ pc = "symlink_ln"
    /\ \/ /\ enabled' = [enabled EXCEPT ![cur.key] = "abs"]
          /\ Attempt("ln", TRUE)
          /\ Goto("verify")
          /\ UNCHANGED <<avail, raisedIn>>
       \/ /\ Attempt("ln", FALSE)
          /\ UNCHANGED enabled
          /\ IF avail[cur.key].exists
             THEN \/ /\ avail' = [avail EXCEPT ![cur.key] = NoFile]
                     /\ Return("False", "link")
                     /\ UNCHANGED raisedIn
                  \/ /\ Raise("unlink_dest")
                     /\ UNCHANGED avail
             ELSE /\ Return("False", "link")
                  /\ UNCHANGED <<avail, raisedIn>>
    /\ UNCHANGED <<backup, logdir, cur, valCalls, valOk, reloadCalls,
                   reloadOk, pre, prev, calls, rvars>>

\* lines 122-134: the link must exist and its resolved target must exist
Verify ==
    /\ pc = "verify"
    /\ IF ~LinkExists(cur.key)
       THEN /\ UNCHANGED enabled
            /\ IF avail[cur.key].exists
               THEN \/ /\ avail' = [avail EXCEPT ![cur.key] = NoFile]
                       /\ Return("False", "nolink")
                       /\ UNCHANGED raisedIn
                    \/ /\ Raise("unlink_dest")
                       /\ UNCHANGED avail
               ELSE /\ Return("False", "nolink")
                    /\ UNCHANGED <<avail, raisedIn>>
       ELSE /\ Goto("validate")
            /\ UNCHANGED <<avail, enabled, raisedIn>>
    /\ UNCHANGED <<backup, logdir, cur, valCalls, valOk, reloadCalls,
                   reloadOk, attempts, pre, prev, calls, rvars>>

\* mutant of Validate: the outcome of nginx -t is ignored and the call goes
\* on to reload
MutValidate ==
    /\ pc = "validate"
    /\ valCalls' = valCalls + 1
    /\ \E ok \in BOOLEAN :
          /\ valOk' = ok
          /\ Goto("reload")
    /\ UNCHANGED <<fsvars, cur, reloadCalls, reloadOk, attempts, raisedIn, pre, prev, calls, rvars>>

\* lines 136-137: run_command(["nginx", "-t"])
Validate ==
    /\ pc = "validate"
    /\ valCalls' = valCalls + 1
    /\ \E ok \in BOOLEAN :
          /\ valOk' = ok
          /\ IF ok THEN Goto("reload") ELSE Goto("rollback_link")
    /\ UNCHANGED <<fsvars, cur, reloadCalls, reloadOk, attempts, raisedIn, pre, prev, calls, rvars>>

\* lines 139-140: if link.exists(): link.unlink()
RollbackLink ==
    /\ pc = "rollback_link"
    /\ IF LinkExists(cur.key)
       THEN \/ /\ enabled' = [enabled EXCEPT ![cur.key] = "none"]
               /\ Goto("rollback_dest")
               /\ UNCHANGED raisedIn
            \/ /\ Raise("unlink_link")
               /\ UNCHANGED enabled
       ELSE /\ Goto("rollback_dest")
            /\ UNCHANGED <<enabled, raisedIn>>
    /\ UNCHANGED <<avail, backup, logdir, cur, valCalls, valOk, reloadCalls,
                   reloadOk, attempts, pre, prev, calls, rvars>>

\* mutant of RollbackDest: the rollback puts back the artifact the call
\* found instead of removing the one it wrote
MutRollbackDestRestore ==
    /\ pc = "rollback_dest"
    /\ avail' = [avail EXCEPT ![cur.key] = pre.avail[cur.key]]
    /\ Return("False", "validation")
    /\ UNCHANGED <<enabled, backup, logdir, cur, valCalls, valOk, reloadCalls,
                   reloadOk, attempts, raisedIn, pre, prev, calls, rvars>>

\* mutant of RollbackDest: the rollback returns False without removing the
\* artifact it wrote
MutRollbackDest ==
    /\ pc = "rollback_dest"
    /\ Return("False", "validation")
    /\ UNCHANGED <<fsvars, cur, ghost, pre, prev, calls, rvars>>

\* lines 141-143: if dest.exists(): dest.unlink(); return False
RollbackDest ==
    /\ pc = "rollback_dest"
    /\ IF avail[cur.key].exists
       THEN \/ /\ avail' = [avail EXCEPT ![cur.key] = NoFile]
               /\ Return("False", "validation")
               /\ UNCHANGED raisedIn
            \/ /\ Raise("unlink_dest")
               /\ UNCHANGED avail
       ELSE /\ Return("False", "validation")
            /\ UNCHANGED <<avail, raisedIn>>
    /\ UNCHANGED <<enabled, backup, logdir, cur, valCalls, valOk, reloadCalls,
                   reloadOk, attempts, pre, prev, calls, rvars>>

\* mutant of Reload: the outcome of nginx -s reload is not looked at and the
\* call returns True
MutReloadIgnored ==
    /\ pc = "reload"
    /\ reloadCalls' = reloadCalls + 1
    /\ \E ok \in BOOLEAN :
          /\ reloadOk' = ok
          /\ Return("True", "applied")
    /\ UNCHANGED <<fsvars, cur, valCalls, valOk, attempts, raisedIn, pre, prev, calls, rvars>>

\* mutant of Reload: a failed reload rolls the link and the artifact back,
\* as a failed validation does
MutReload ==
    /\ pc = "reload"
    /\ reloadCalls' = reloadCalls + 1
    /\ \E ok \in BOOLEAN :
          /\ reloadOk' = ok
          /\ IF ok
             THEN /\ Return("True", "applied")
                  /\ UNCHANGED <<avail, enabled>>
             ELSE /\ Return("False", "reload")
                  /\ enabled' = [enabled EXCEPT ![cur.key] = "none"]
                  /\ avail' = [avail EXCEPT ![cur.key] = NoFile]
    /\ UNCHANGED <<backup, logdir, cur, valCalls, valOk, attempts, raisedIn,
                   pre, prev, calls, rvars>>

\* lines 145-151: run_command(["nginx", "-s", "reload"])
Reload ==
    /\ pc = "reload"
    /\ reloadCalls' = reloadCalls + 1
    /\ \E ok \in BOOLEAN :
          /\ reloadOk' = ok
          /\ IF ok THEN Return("True", "applied") ELSE Return("False", "reload")
    /\ UNCHANGED <<fsvars, cur, valCalls, valOk, attempts, raisedIn, pre, prev, calls, rvars>>

\* lines 153-157: except Exception: if dest.exists(): dest.unlink(); return
\* False.  An exception raised by this unlink leaves the method.
Except ==
    /\ pc = "except"
    /\ IF avail[cur.key].exists
       THEN \/ /\ avail' = [avail EXCEPT ![cur.key] = NoFile]
               /\ Return("False", "exception")
            \/ /\ Return("raised", "exception")
               /\ UNCHANGED avail
       ELSE /\ Return("False", "exception")
            /\ UNCHANGED avail
    /\ UNCHANGED <<enabled, backup, logdir, cur, ghost, pre, prev, calls, rvars>>

(* ---------------------------------------------------------------------- *)
(* delete_config                                                           *)
(* ---------------------------------------------------------------------- *)

Call_delete_config ==
    \E d \in Domains : StartCall("delete_config", d, <<>>, "d_check")

\* mutant of DeleteCheck: the not-found test is missing
MutDeleteCheck ==
    /\ pc = "d_check"
    /\ Goto("d_unlink_enabled")
    /\ UNCHANGED <<fsvars, cur, ghost, pre, prev, calls, rvars>>

\* lines 166-168: nothing found for the domain
DeleteCheck ==
    /\ pc = "d_check"
    /\ IF ~avail[cur.key].exists /\ ~LinkExists(cur.key)
       THEN Return("False", "notfound")
       ELSE Goto("d_unlink_enabled")
    /\ UNCHANGED <<fsvars, cur, ghost, pre, prev, calls, rvars>>

\* the handler of lines 195-197 returns False and undoes nothing
DeleteRaise(s) ==
    /\ raisedIn' = s
    /\ Return("False", "exception")

\* mutant of DeleteUnlinkEnabled: the two removals are exchanged, the
\* artifact is removed while the enabled reference is still there
MutDeleteUnlinkEnabled ==
    /\ pc = "d_unlink_enabled"
    /\ IF avail[cur.key].exists
       THEN \/ /\ avail' = [avail EXCEPT ![cur.key] = NoFile]
               /\ Goto("d_unlink_avail")
               /\ UNCHANGED raisedIn
            \/ /\ DeleteRaise("unlink_dest")
               /\ UNCHANGED avail
       ELSE /\ Goto("d_unlink_avail")
            /\ UNCHANGED <<avail, raisedIn>>
    /\ UNCHANGED <<enabled, backup, logdir, cur, valCalls, valOk, reloadCalls,
                   reloadOk, attempts, pre, prev, calls, rvars>>

\* lines 170-172: if enabled_f.exists(): enabled_f.unlink()
DeleteUnlinkEnabled ==
    /\ pc = "d_unlink_enabled"
    /\ IF LinkExists(cur.key)
       THEN \/ /\ enabled' = [enabled EXCEPT ![cur.key] = "none"]
               /\ Goto("d_unlink_avail")
               /\ UNCHANGED raisedIn
            \/ /\ DeleteRaise("unlink_link")
               /\ UNCHANGED enabled
       ELSE /\ Goto("d_unlink_avail")
            /\ UNCHANGED <<enabled, raisedIn>>
    /\ UNCHANGED <<avail, backup, logdir, cur, valCalls, valOk, reloadCalls,
                   reloadOk, attempts, pre, prev, calls, rvars>>

\* lines 174-176: if avail_f.exists(): avail_f.unlink()
DeleteUnlinkAvail ==
    /\ pc = "d_unlink_avail"
    /\ IF avail[cur.key].exists
       THEN \/ /\ avail' = [avail EXCEPT ![cur.key] = NoFile]
               /\ Goto("d_broken")
               /\ UNCHANGED raisedIn
            \/ /\ DeleteRaise("unlink_dest")
               /\ UNCHANGED avail
       ELSE /\ Goto("d_broken")
            /\ UNCHANGED <<avail, raisedIn>>
    /\ UNCHANGED <<enabled, backup, logdir, cur, valCalls, valOk, reloadCalls,
                   reloadOk, attempts, pre, prev, calls, rvars>>

\* Path(os.readlink(enabled_f)).exists(): the link text is resolved against
\* the working directory, where a relative target is not found
ReadlinkTargetExists(k) ==
    CASE enabled[k] = "abs" -> avail[k].exists
      [] enabled[k] = "ext" -> TRUE
      [] OTHER -> FALSE

\* mutant of DeleteBroken: the clean-up goes over the whole enabled
\* directory and removes every symlink whose target is missing
MutDeleteBroken ==
    /\ pc = "d_broken"
    /\ enabled' = [k \in Keys |-> IF Dangling(k) THEN "none" ELSE enabled[k]]
    /\ Goto("d_validate")
    /\ UNCHANGED <<avail, backup, logdir, cur, valCalls, valOk, reloadCalls,
                   reloadOk, attempts, raisedIn, pre, prev, calls, rvars>>

\* lines 178-182: if enabled_f.exists() and enabled_f.is_symlink() and the
\* readlink target does not exist: enabled_f.unlink()
DeleteBroken ==
    /\ pc = "d_broken"
    /\ IF LinkExists(cur.key) /\ IsSymlink(enabled[cur.key])
          /\ ~ReadlinkTargetExists(cur.key)
       THEN \/ /\ enabled' = [enabled EXCEPT ![cur.key] = "none"]
               /\ Goto("d_validate")
               /\ UNCHANGED raisedIn
            \/ /\ DeleteRaise("unlink_link")
               /\ UNCHANGED enabled
       ELSE /\ Goto("d_validate")
            /\ UNCHANGED <<enabled, raisedIn>>
    /\ UNCHANGED <<avail, backup, logdir, cur, valCalls, valOk, reloadCalls,
                   reloadOk, attempts, pre, prev, calls, rvars>>

\* mutant of DeleteValidate: the reload command is run whatever nginx -t
\* answered, and the failure is reported afterwards
MutDeleteValidateReloads ==
    /\ pc = "d_validate"
    /\ valCalls' = valCalls + 1
    /\ \E ok \in BOOLEAN :
          /\ valOk' = ok
          /\ IF ok
             THEN Goto("d_reload") /\ UNCHANGED <<reloadCalls, reloadOk>>
             ELSE /\ reloadCalls' = reloadCalls + 1
                  /\ reloadOk' \in BOOLEAN
                  /\ Return("False", "validation")
    /\ UNCHANGED <<fsvars, cur, attempts, raisedIn, pre, prev, calls, rvars>>

\* mutant of DeleteValidate: a failed nginx -t after the deletion is not
\* reported, the call goes on to reload
MutDeleteValidate ==
    /\ pc = "d_validate"
    /\ valCalls' = valCalls + 1
    /\ \E ok \in BOOLEAN :
          /\ valOk' = ok
          /\ Goto("d_reload")
    /\ UNCHANGED <<fsvars, cur, reloadCalls, reloadOk, attempts, raisedIn, pre, prev, calls, rvars>>

\* lines 184-186: run_command(["nginx", "-t"])
DeleteValidate ==
    /\ pc = "d_validate"
    /\ valCalls' = valCalls + 1
    /\ \E ok \in BOOLEAN :
          /\ valOk' = ok
          /\ IF ok THEN Goto("d_reload") ELSE Return("False", "validation")
    /\ UNCHANGED <<fsvars, cur, reloadCalls, reloadOk, attempts, raisedIn, pre, prev, calls, rvars>>

\* lines 188-193: run_command(["nginx", "-s", "reload"])
DeleteReload ==
    /\ pc = "d_reload"
    /\ reloadCalls' = reloadCalls + 1
    /\ \E ok \in BOOLEAN :
          /\ reloadOk' = ok
          /\ IF ok THEN Return("True", "removed") ELSE Return("False", "reload")
    /\ UNCHANGED <<fsvars, cur, valCalls, valOk, attempts, raisedIn, pre, prev, calls, rvars>>

(* ---------------------------------------------------------------------- *)
(* Templates and configuration builder (nginx/templates.py,                *)
(* nginx/config_builder.py).  A text is a sequence of lines, a line a      *)
(* sequence of tokens, <<>> a blank line; a value made of several words is *)
(* several tokens.                                                         *)
(* ---------------------------------------------------------------------- *)

\* the characters of a name put together as one string
RECURSIVE Join(_)
Join(cs) == IF cs = <<>> THEN "" ELSE Head(cs) \o Join(Tail(cs))

\* "sep".join(blocks) for blocks of lines: sep is the list of lines that a
\* separator of newlines puts between two blocks
RECURSIVE JoinBlocks(_, _)
JoinBlocks(blocks, sep) ==
    IF blocks = <<>> THEN <<>>
    ELSE IF Len(blocks) = 1 THEN blocks[1]
    ELSE blocks[1] \o sep \o JoinBlocks(Tail(blocks), sep)

LOG_FORMAT_MAIN ==
    << <<"# Log format definition">>,
       <<"log_format", "main",
         "'$remote_addr - $remote_user [$time_local] \"$request\" '",
         "'$status $body_bytes_sent \"$http_referer\" '",
         "'\"$http_user_agent\" \"$http_x_forwarded_for\"'", ";">> >>

\* mutant of SERVER_BLOCK_TEMPLATE: the {ssl_config} placeholder follows
\* the server_name line instead of the locations
MutSERVER_BLOCK_TEMPLATE(port, domain, static_directives, log_config, security_headers, rate_limiting, locations, ssl_config) ==
    << <<"server", "{">>,
       <<"listen", port, ";">>,
       <<"server_name", domain, ";">>,
       <<>> >>
    \o ssl_config
    \o << <<>> >>
    \o static_directives
    \o log_config
    \o << <<>>, <<"# Security settings">> >>
    \o security_headers
    \o << <<>>,
          <<"# Rate limiting (requires limit_req_zone in http context of nginx.conf)">> >>
    \o rate_limiting
    \o << <<>> >>
    \o locations
    \o << <<"}">> >>

\* templates.py lines 13-29
SERVER_BLOCK_TEMPLATE(port, domain, static_directives, log_config, security_headers, rate_limiting, locations, ssl_config) ==
    << <<"server", "{">>,
       <<"listen", port, ";">>,
       <<"server_name", domain, ";">>,
       <<>> >>
    \o static_directives
    \o log_config
    \o << <<>>, <<"# Security settings">> >>
    \o security_headers
    \o << <<>>,
          <<"# Rate limiting (requires limit_req_zone in http context of nginx.conf)">> >>
    \o rate_limiting
    \o << <<>> >>
    \o locations
    \o << <<>> >>
    \o ssl_config
    \o << <<"}">> >>

REDIRECT_SERVER_BLOCK(domain) ==
    << <<"server", "{">>,
       <<"listen", "80", ";">>,
       <<"server_name", domain, ";">>,
       <<>>,
       <<"# Redirect all HTTP traffic to HTTPS">>,
       <<"return", "301", "https://$host$request_uri", ";">>,
       <<"}">>,
       <<>> >>

PROXY_LOCATION_BLOCK(path, proxy_pass) ==
    << <<"location", path, "{">>,
       <<"proxy_pass", proxy_pass, ";">>,
       <<>>,
       <<"# Proxy headers">>,
       <<"proxy_set_header", "Host", "$host", ";">>,
       <<"proxy_set_header", "X-Real-IP", "$remote_addr", ";">>,
       <<"proxy_set_header", "X-Forwarded-For", "$proxy_add_x_forwarded_for", ";">>,
       <<"proxy_set_header", "X-Forwarded-Proto", "$scheme", ";">>,
       <<>>,
       <<"# WebSocket support">>,
       <<"proxy_set_header", "Upgrade", "$http_upgrade", ";">>,
       <<"proxy_set_header", "Connection", "\"upgrade\"", ";">>,
       <<>>,
       <<"# Proxy optimizations">>,
       <<"proxy_buffers", "16", "16k", ";">>,
       <<"proxy_buffer_size", "16k", ";">>,
       <<"proxy_http_version", "1.1", ";">>,
       <<"proxy_redirect", "off", ";">>,
       <<>>,
       <<"# Timeouts">>,
       <<"proxy_connect_timeout", "60s", ";">>,
       <<"proxy_send_timeout", "60s", ";">>,
       <<"proxy_read_timeout", "60s", ";">>,
       <<"}">> >>

STATIC_SERVER_DIRECTIVES(root, index) ==
    << <<"# Static site configuration">>,
       <<"root", root, ";">>,
       <<"index", index, ";">>,
       <<>>,
       <<"# Serve static files efficiently">>,
       <<"location", "~*", "\\.(jpg|jpeg|png|gif|ico|css|js)$", "{">>,
       <<"expires", "30d", ";">>,
       <<"add_header", "Cache-Control", "\"public, no-transform\"", ";">>,
       <<"}">>,
       <<>>,
       <<"# Deny access to hidden files">>,
       <<"location", "~", "/\\.", "{">>,
       <<"deny", "all", ";">>,
       <<"}">> >>

SECURITY_HEADERS ==
    << <<"# Security headers">>,
       <<"add_header", "X-Content-Type-Options", "nosniff", ";">>,
       <<"add_header", "X-Frame-Options", "SAMEORIGIN", ";">>,
       <<"add_header", "X-XSS-Protection", "\"1; mode=block\"", ";">>,
       <<"add_header", "Referrer-Policy", "no-referrer-when-downgrade", ";">>,
       <<"add_header", "Content-Security-Policy",
         "\"default-src 'self' https: data: 'unsafe-inline' 'unsafe-eval';\"", ";">>,
       <<"add_header", "Permissions-Policy",
         "\"camera=(), microphone=(), geolocation=()\"", ";">> >>

\* paths of the shared TLS parameter files (templates.py lines 105-106)
OptionsSslPath == "/etc/letsencrypt/options-ssl-nginx.conf"
SslDhparamsPath == "/etc/letsencrypt/ssl-dhparams.pem"

\* (directive, value template) pairs; the value is the list of its words
SSL_CONFIG_BLOCK(domain) ==
    << <<"listen", <<"443", "ssl", "http2">> >>,
       <<"ssl_certificate", <<"/etc/letsencrypt/live/" \o domain \o "/fullchain.pem">> >>,
       <<"ssl_certificate_key", <<"/etc/letsencrypt/live/" \o domain \o "/privkey.pem">> >>,
       <<"ssl_session_timeout", <<"1d">> >>,
       <<"ssl_session_cache", <<"shared:SSL:10m">> >>,
       <<"ssl_session_tickets", <<"off">> >>,
       <<"ssl_protocols", <<"TLSv1.2", "TLSv1.3">> >>,
       <<"ssl_ciphers", <<"ECDHE-ECDSA-AES128-GCM-SHA256:ECDHE-RSA-AES128-GCM-SHA256:ECDHE-ECDSA-AES256-GCM-SHA384:ECDHE-RSA-AES256-GCM-SHA384:ECDHE-ECDSA-CHACHA20-POLY1305:ECDHE-RSA-CHACHA20-POLY1305:DHE-RSA-AES128-GCM-SHA256:DHE-RSA-AES256-GCM-SHA384">> >>,
       <<"ssl_prefer_server_ciphers", <<"off">> >>,
       <<"include", <<OptionsSslPath>> >>,
       <<"ssl_dhparam", <<SslDhparamsPath>> >>,
       <<"ssl_stapling", <<"on">> >>,
       <<"ssl_stapling_verify", <<"on">> >>,
       <<"resolver", <<"8.8.8.8", "8.8.4.4", "valid=60s">> >>,
       <<"resolver_timeout", <<"2s">> >> >>

RATE_LIMITING ==
    << <<"# Rate limiting">>,
       <<"limit_req", "zone=one", "burst=10", "nodelay", ";">> >>

\* config_builder.py lines 79-81
_build_proxy_location(path, proxy_pass) == PROXY_LOCATION_BLOCK(path, proxy_pass)

\* mutant of _build_custom_location: the pairs go through a dictionary, so
\* of a repeated directive name only the last value is written
Mut_build_custom_location(path, directives) ==
    LET kept == SelectSeq([i \in 1..Len(directives) |-> <<i, directives[i]>>],
                          LAMBDA p : \A j \in (p[1] + 1)..Len(directives) :
                                        directives[j][1] # p[2][1])
    IN  << <<"location", path, "{">> >>
        \o [i \in 1..Len(kept) |-> <<kept[i][2][1], kept[i][2][2], ";">>]
        \o << <<"}">> >>

\* config_builder.py lines 83-89: one line per (directive, value) pair, in
\* the order of the list
_build_custom_location(path, directives) ==
    << <<"location", path, "{">> >>
    \o [i \in 1..Len(directives) |-> <<directives[i][1], directives[i][2], ";">>]
    \o << <<"}">> >>

\* config_builder.py lines 91-97
_build_log_config(domain) ==
    << <<>>,
       <<"# Logging configuration">>,
       <<"access_log", "/var/log/nginx/" \o domain \o "/access.log", "main", "buffer=16k", ";">>,
       <<"error_log", "/var/log/nginx/" \o domain \o "/error.log", "warn", ";">>,
       <<>> >>

\* config_builder.py lines 99-101
_build_security_config == SECURITY_HEADERS

\* config_builder.py lines 103-112: include and ssl_dhparam are left out
\* when the file they name is not among the existing paths
RECURSIVE SslLines(_, _)
SslLines(pairs, existing) ==
    IF pairs = <<>> THEN <<>>
    ELSE LET directive == Head(pairs)[1]
             value == Head(pairs)[2]
         IN  IF directive \in {"include", "ssl_dhparam"} /\ value[1] \notin existing
             THEN SslLines(Tail(pairs), existing)
             ELSE << <<directive>> \o value \o <<";">> >> \o SslLines(Tail(pairs), existing)

\* mutant of _build_ssl_config: every directive is written, whether or not
\* the file it names exists
Mut_build_ssl_config(domain, existing) ==
    [k \in 1..Len(SSL_CONFIG_BLOCK(domain)) |->
        <<SSL_CONFIG_BLOCK(domain)[k][1]>> \o SSL_CONFIG_BLOCK(domain)[k][2] \o <<";">>]

_build_ssl_config(domain, existing) == SslLines(SSL_CONFIG_BLOCK(domain), existing)

\* the lines of a string that may be empty: the empty string is one blank
\* line of the template it is put into
OrBlank(lines) == IF lines = <<>> THEN << <<>> >> ELSE lines

\* mutant of build: the static directives are written whatever the mode is
Mutbuild(domain, cfg, locations, ssl, redirect, existing) ==
    IF redirect
    THEN REDIRECT_SERVER_BLOCK(domain)
    ELSE LET location_blocks ==
                 (IF cfg.mode = "proxy"
                  THEN << _build_proxy_location(cfg.path, cfg.proxy_pass) >>
                  ELSE <<>>)
                 \o [i \in 1..Len(locations) |->
                       _build_custom_location(locations[i].path, locations[i].directives)]
             log_config == _build_log_config(domain)
             security_config == _build_security_config
             ssl_config == IF ssl THEN _build_ssl_config(domain, existing) ELSE <<>>
             rate_limiting == RATE_LIMITING
             static_directives ==
                 STATIC_SERVER_DIRECTIVES(cfg.root, cfg.index)
         IN  LOG_FORMAT_MAIN \o << <<>> >>
             \o SERVER_BLOCK_TEMPLATE(cfg.listen, domain,
                    OrBlank(static_directives), log_config, security_config,
                    rate_limiting,
                    OrBlank(JoinBlocks(location_blocks, << <<>> >>)),
                    OrBlank(ssl_config))

\* config_builder.py lines 25-77; existing is the set of paths for which
\* Path(value).exists() holds
build(domain, cfg, locations, ssl, redirect, existing) ==
    IF redirect
    THEN REDIRECT_SERVER_BLOCK(domain)
    ELSE LET location_blocks ==
                 (IF cfg.mode = "proxy"
                  THEN << _build_proxy_location(cfg.path, cfg.proxy_pass) >>
                  ELSE <<>>)
                 \o [i \in 1..Len(locations) |->
                       _build_custom_location(locations[i].path, locations[i].directives)]
             log_config == _build_log_config(domain)
             security_config == _build_security_config
             ssl_config == IF ssl THEN _build_ssl_config(domain, existing) ELSE <<>>
             rate_limiting == RATE_LIMITING
             static_directives ==
                 IF cfg.mode = "static"
                 THEN STATIC_SERVER_DIRECTIVES(cfg.root, cfg.index)
                 ELSE <<>>
         IN  LOG_FORMAT_MAIN \o << <<>> >>
             \o SERVER_BLOCK_TEMPLATE(cfg.listen, domain,
                    OrBlank(static_directives), log_config, security_config,
                    rate_limiting,
                    OrBlank(JoinBlocks(location_blocks, << <<>> >>)),
                    OrBlank(ssl_config))

\* mutant of create_config_text: the redirect block is appended to the
\* list of blocks instead of inserted at its head
Mutcreate_config_text(st) ==
    LET domain == Join(st.domain)
        server_conf == build(domain, st.cfg, st.locations, st.use_ssl, FALSE, st.existing)
        blocks == IF st.add_redirect
                  THEN << server_conf,
                          build(domain, st.cfg, st.locations, FALSE, TRUE, st.existing) >>
                  ELSE << server_conf >>
    IN  JoinBlocks(blocks, << <<>> >>)

\* cli/interface.py lines 100-106: the main block, preceded by the redirect
\* block when one was asked for, joined by a blank line
create_config_text(st) ==
    LET domain == Join(st.domain)
        server_conf == build(domain, st.cfg, st.locations, st.use_ssl, FALSE, st.existing)
        blocks == IF st.add_redirect
                  THEN << build(domain, st.cfg, st.locations, FALSE, TRUE, st.existing),
                          server_conf >>
                  ELSE << server_conf >>
    IN  JoinBlocks(blocks, << <<>> >>)

(* ---------------------------------------------------------------------- *)
(* Registry: list_configs (nginx/manager.py lines 38-68)                   *)
(* ---------------------------------------------------------------------- *)

\* the tokens of a text in reading order (whitespace and newlines separate)
RECURSIVE Flatten(_)
Flatten(lines) == IF lines = <<>> THEN <<>> ELSE Head(lines) \o Flatten(Tail(lines))

\* the words of a match put back together with single spaces
RECURSIVE JoinWords(_)
JoinWords(ws) ==
    IF ws = <<>> THEN ""
    ELSE IF Len(ws) = 1 THEN ws[1]
    ELSE ws[1] \o " " \o JoinWords(Tail(ws))

\* the decimal tokens of the model's texts; ([\d]+) takes the leading digits
\* of what follows "listen", nothing when it starts with no digit
DecimalTokens == {"80", "443", "8443", "301", "16"}
DigitPrefix(tok) == IF tok \in DecimalTokens THEN tok ELSE ""

\* "word in content" is a substring test: ssl_certificate is also found in
\* ssl_certificate_key
TokenHas(tok, word) ==
    \/ tok = word
    \/ word = "ssl_certificate" /\ tok = "ssl_certificate_key"

InContent(word, content) ==
    \E i \in 1..Len(content) : \E j \in 1..Len(content[i]) : TokenHas(content[i][j], word)

\* re.search(r"server_name\s+([^;]+);", content): the first server_name
\* followed by a non-empty run up to the next semicolon; <<>> when none
ServerNameMatch(toks) ==
    LET starts == { i \in 1..Len(toks) :
                      /\ toks[i] = "server_name"
                      /\ i < Len(toks)
                      /\ toks[i + 1] # ";"
                      /\ \E j \in (i + 2)..Len(toks) : toks[j] = ";" }
    IN  IF starts = {} THEN <<>>
        ELSE LET i == CHOOSE x \in starts : \A y \in starts : x <= y
                 j == CHOOSE x \in (i + 2)..Len(toks) :
                          /\ toks[x] = ";"
                          /\ \A y \in (i + 2)..(x - 1) : toks[y] # ";"
             IN  SubSeq(toks, i + 1, j - 1)

\* re.search(r"listen\s+([\d]+)", content): the first listen followed by
\* digits; "" when none
ListenMatch(toks) ==
    LET starts == { i \in 1..Len(toks) :
                      /\ toks[i] = "listen"
                      /\ i < Len(toks)
                      /\ DigitPrefix(toks[i + 1]) # "" }
    IN  IF starts = {} THEN ""
        ELSE DigitPrefix(toks[(CHOOSE x \in starts : \A y \in starts : x <= y) + 1])

\* lines 51-66: the summary of one readable configuration file
Summary(conf) ==
    LET toks == Flatten(conf.lines)
        m_name == ServerNameMatch(toks)
        m_listen == ListenMatch(toks)
    IN  [name |-> conf.name,
         domain |-> IF m_name # <<>> THEN JoinWords(m_name) ELSE "-",
         port |-> IF m_listen # "" THEN m_listen ELSE "-",
         type |-> IF InContent("proxy_pass", conf.lines) THEN "proxy" ELSE "static",
         ssl |-> InContent("ssl_certificate", conf.lines)]

\* the order of the file names that occur, as sorted() puts them
NameOrder == <<"0.conf", "_.a.io.conf", "a.io.conf", "zz.conf">>
Rank(name) == CHOOSE i \in 1..Len(NameOrder) : NameOrder[i] = name

\* sorted(self.avail.glob("*.conf"))
RECURSIVE SortedConfs(_)
SortedConfs(entries) ==
    IF entries = {} THEN <<>>
    ELSE LET first == CHOOSE e \in entries :
                         \A f \in entries : Rank(e.name) <= Rank(f.name)
         IN  <<first>> \o SortedConfs(entries \ {first})

\* kinds of entry matched by *.conf: conf.read_text() returns the text of a
\* readable text file and raises for the others
EntryKinds == {"text", "unreadable", "undecodable", "directory", "dangling"}

\* lines 50-66: the loop over the sorted entries; an exception of read_text
\* ends the loop and leaves list_configs
RECURSIVE ListLoop(_)
ListLoop(confs) ==
    IF confs = <<>> THEN [raised |-> FALSE, result |-> <<>>]
    ELSE IF Head(confs).kind # "text" THEN [raised |-> TRUE, result |-> <<>>]
    ELSE LET rest == ListLoop(Tail(confs))
         IN  IF rest.raised THEN rest
             ELSE [raised |-> FALSE,
                   result |-> <<Summary(Head(confs))>> \o rest.result]

\* lines 38-68
list_configs(entries) == ListLoop(SortedConfs(entries))

(* ---------------------------------------------------------------------- *)
(* The create / list flow and the name sanitization on bounded inputs      *)
(* ---------------------------------------------------------------------- *)

\* number of additional location blocks entered in create_config
MaxLocations == 2

SeqsUpTo(S, n) == UNION { [1..m -> S] : m \in 0..n }

\* domains accepted by validate_domain, as sequences of characters
SiteDomains == { <<"a", ".", "i", "o">>, <<"*", ".", "a", ".", "i", "o">> }

\* listening ports accepted by validate_port
Ports == { "80", "8443" }

\* answers to the upstream prompt, which is not validated and may be empty
Upstreams == { "http://localhost:5173", "" }

\* additional location blocks: path and list of (directive, value) pairs
LocationBlocks ==
    { [path |-> "/api",   directives |-> << <<"proxy_pass", "http://127.0.0.1:3000">> >>],
      [path |-> "/img",   directives |-> << <<"add_header", "X-A 1">>, <<"add_header", "X-A 2">> >>],
      [path |-> "/img",   directives |-> << <<"add_header", "X-A 2">>, <<"add_header", "X-A 1">> >>],
      [path |-> "/files", directives |-> << <<"root", "/srv/files">>, <<"index", "index.html">> >>],
      [path |-> "/empty", directives |-> <<>>] }

\* cli/interface.py lines 48-74: the cfg dictionary of either mode
Cfgs ==
    { [mode |-> "proxy", listen |-> p, path |-> "/", proxy_pass |-> u,
       root |-> "", index |-> ""] : p \in Ports, u \in Upstreams }
    \cup
    { [mode |-> "static", listen |-> p, path |-> "", proxy_pass |-> "",
       root |-> "/var/www/html", index |-> "index.html"] : p \in Ports }

\* the certificate and key files of a domain (templates.py lines 97-98)
FullchainPath(domain) == "/etc/letsencrypt/live/" \o domain \o "/fullchain.pem"
PrivkeyPath(domain) == "/etc/letsencrypt/live/" \o domain \o "/privkey.pem"

\* the files that Path(value).exists() may find for a domain: the shared
\* parameter files in any combination, without a certificate or with the
\* certificate issued (both files, or the certificate file alone)
ExistingSets(domain) ==
    LET shared == SUBSET {OptionsSslPath, SslDhparamsPath}
    IN  shared
        \cup { {FullchainPath(domain), PrivkeyPath(domain)} \cup sh :
                 sh \in {{}, {OptionsSslPath, SslDhparamsPath}} }
        \cup { {FullchainPath(domain)} }

\* cli/interface.py lines 95-98: the redirect is asked for only with SSL
SiteConfigs ==
    { st \in [domain : SiteDomains, cfg : Cfgs,
              locations : SeqsUpTo(LocationBlocks, MaxLocations),
              use_ssl : BOOLEAN, add_redirect : BOOLEAN,
              existing : UNION { ExistingSets(Join(d)) : d \in SiteDomains }] :
        /\ st.add_redirect => st.use_ssl
        /\ st.existing \in ExistingSets(Join(st.domain))
        /\ ~st.use_ssl => st.existing = {} }

\* names typed at the delete / show prompts, which are not validated, and
\* handed to write_and_enable as domain; "NUL" stands for the character
\* U+0000
RawNames ==
    { <<"a", ".", "i", "o">>, <<"*", ".", "a">>, <<"a", "/", "b">>,
      <<".", ".", "/", "x">>, <<"c", "a", "f", "é", "/", "x">>, <<"ß">>, <<"a", " ", "b">>,
      <<"A", "-", "9", "_", "Z", "0">>, <<>>, <<".">>, <<".", ".">>,
      <<"a", "NUL", "b">> }

\* the three directories of the manager (config/default_settings.py lines
\* 6-9), as sequences of path components
sites_available == <<"etc", "nginx", "sites-available">>
sites_enabled == <<"etc", "nginx", "sites-enabled">>
logs_dir == <<"var", "log", "nginx">>

\* the components of a name, split at "/"
RECURSIVE SplitName(_, _)
SplitName(cs, acc) ==
    IF cs = <<>> THEN <<acc>>
    ELSE IF Head(cs) = "/" THEN <<acc>> \o SplitName(Tail(cs), <<>>)
    ELSE SplitName(Tail(cs), Append(acc, Head(cs)))

\* pathlib's dir / name: a name that starts with "/" replaces dir, empty
\* and "." components are dropped, ".." components are kept
PathJoin(dir, cs) ==
    LET parts == SelectSeq(SplitName(cs, <<>>), LAMBDA c : c # <<>> /\ c # <<".">>)
        names == [i \in 1..Len(parts) |-> Join(parts[i])]
    IN  IF cs # <<>> /\ cs[1] = "/" THEN names ELSE dir \o names

\* the directory entry a path names: ".." goes up one directory
RECURSIVE ResolvePath(_, _)
ResolvePath(path, acc) ==
    IF path = <<>> THEN acc
    ELSE IF Head(path) = ".."
    THEN ResolvePath(Tail(path), IF acc = <<>> THEN <<>> ELSE SubSeq(acc, 1, Len(acc) - 1))
    ELSE ResolvePath(Tail(path), Append(acc, Head(path)))

\* the paths that write_and_enable, delete_config and show_config build
\* from safe_domain (manager.py lines 76, 79, 84, 92, 162-163, 202, 206),
\* each with the directory it is built in
ManagerPaths(safe_domain) ==
    LET conf == safe_domain \o <<".", "c", "o", "n", "f">>
        bak == IF safe_domain = <<>> THEN conf \o <<".", "c", "o", "n", "f", ".", "b", "a", "k">>
               ELSE conf \o <<".", "b", "a", "k">>
    IN  { [use |-> "dest", dir |-> sites_available, path |-> PathJoin(sites_available, conf)],
          [use |-> "link", dir |-> sites_enabled, path |-> PathJoin(sites_enabled, conf)],
          [use |-> "backup", dir |-> sites_enabled, path |-> PathJoin(sites_enabled, bak)],
          [use |-> "log_dir", dir |-> logs_dir, path |-> PathJoin(logs_dir, safe_domain)] }

\* entries found in sites-available next to the site's artifact
OtherEntries ==
    { {} } \cup
    { { [name |-> n, kind |-> k,
         lines |-> IF k = "text" THEN << <<"garbage">> >> ELSE <<>>] } :
        n \in {"0.conf", "zz.conf"}, k \in EntryKinds }

\* the activation engine is idle on an empty file system
MainQuiet ==
    /\ avail = [k \in Keys |-> NoFile]
    /\ enabled = [k \in Keys |-> "none"]
    /\ backup = [k \in Keys |-> NoFile]
    /\ logdir = [k \in Keys |-> FALSE]
    /\ pc = "idle"
    /\ cur = NoCall
    /\ result = "none"
    /\ why = ""
    /\ valCalls = 0
    /\ valOk = FALSE
    /\ reloadCalls = 0
    /\ reloadOk = FALSE
    /\ attempts = <<>>
    /\ raisedIn = ""
    /\ pre = FS
    /\ prev = [op |-> "none", domain |-> <<>>, text |-> <<>>, result |-> "none",
               why |-> ""]
    /\ calls = 0

RenderInit ==
    /\ MainQuiet
    /\ full_conf = <<>>
    /\ artifact = NoArtifact
    /\ listing = NoListing
    /\ safename = <<>>
    /\ \/ /\ stage = "input"
          /\ site \in SiteConfigs
          /\ rawname = <<>>
       \/ /\ stage = "name"
          /\ site = NoSite
          /\ rawname \in RawNames

\* cli/interface.py lines 100-106: the text of the answers is built
CreateConfig ==
    /\ stage = "input"
    /\ full_conf' = create_config_text(site)
    /\ stage' = "built"
    /\ UNCHANGED <<mvars, site, artifact, listing, rawname, safename>>

\* the methods that class NginxManager of nginx/manager.py defines
NginxManagerMethods ==
    { "__init__", "require_root", "ensure_directories", "list_configs",
      "write_and_enable", "delete_config", "show_config", "_sanitize_domain" }

\* cli/interface.py lines 112-114: the user declines "Write config and
\* enable?"; create_config returns to the menu, nothing is written
CancelWrite ==
    /\ stage = "built"
    /\ stage' = "canceled"
    /\ UNCHANGED <<mvars, site, full_conf, artifact, listing, rawname, safename>>

\* cli/interface.py lines 116-117: write_and_enable returned False (and
\* left no artifact); create_config returns to the menu
WriteFails ==
    /\ stage = "built"
    /\ stage' = "failed"
    /\ UNCHANGED <<mvars, site, full_conf, artifact, listing, rawname, safename>>

\* cli/interface.py line 116 and manager.py lines 75-82 of a successful
\* write_and_enable: the text is stored under the sanitized name
WriteArtifact ==
    /\ stage = "built"
    /\ artifact' = [name |-> Join(_sanitize_domain(site.domain)) \o ".conf",
                    kind |-> "text",
                    lines |-> Written(full_conf).content]
    /\ stage' = "activated"
    /\ UNCHANGED <<mvars, site, full_conf, listing, rawname, safename>>

\* cli/interface.py lines 119-120, after write_and_enable returned True:
\* with SSL the user is asked "Run Certbot now?" and on yes
\* self.manager.obtain_cert(domain) is called; calling a method the class
\* does not define raises AttributeError, which neither create_config nor
\* main_loop catches
ObtainCert ==
    /\ stage = "activated"
    /\ \E run_certbot \in BOOLEAN :
          stage' = IF site.use_ssl /\ run_certbot /\ "obtain_cert" \notin NginxManagerMethods
                   THEN "crashed"
                   ELSE "returned"
    /\ UNCHANGED <<mvars, site, full_conf, artifact, listing, rawname, safename>>

\* manager.py lines 38-68, chosen from the menu after create_config has
\* returned, on a directory holding the artifact and possibly one more entry
ListConfigs ==
    /\ stage = "returned"
    /\ \E other \in OtherEntries :
          LET entries == {artifact} \cup other
              out == list_configs(entries)
              confs == SortedConfs(entries)
          IN  listing' = [raised |-> out.raised, result |-> out.result,
                          seen |-> [i \in 1..Len(confs) |->
                                      [name |-> confs[i].name, kind |-> confs[i].kind]]]
    /\ stage' = "listed"
    /\ UNCHANGED <<mvars, site, full_conf, artifact, rawname, safename>>

\* manager.py lines 161, 201: the key of a typed name
Sanitize ==
    /\ stage = "name"
    /\ safename' = _sanitize_domain(rawname)
    /\ stage' = "named"
    /\ UNCHANGED <<mvars, site, full_conf, artifact, listing, rawname>>

RenderNext ==
    \/ CreateConfig
    \/ CancelWrite
    \/ WriteFails
    \/ WriteArtifact
    \/ ObtainCert
    \/ ListConfigs
    \/ Sanitize

RenderSpec == RenderInit /\ [][RenderNext]_vars

(* ---------------------------------------------------------------------- *)
(* The activation of the executable entry point (src/main.py lines         *)
(* 104-117), run next to the one of nginx/manager.py on an empty file      *)
(* system.  An exception leaves write_and_enable and ends the program      *)
(* (lines 242-252): nothing is undone.                                     *)
(* ---------------------------------------------------------------------- *)

EntryInit ==
    /\ RenderOff
    /\ MainQuiet

\* main.py line 104; the file name is the domain as given
Call_main_write_and_enable ==
    \E d \in Domains, t \in Texts :
        StartCall("main.write_and_enable", d, t, "m_write_text")

\* the exception leaves the method: no handler, no clean-up
MainRaise(s, w) ==
    /\ raisedIn' = s
    /\ Return("raised", w)

\* main.py lines 105-106: dest.write_text(full_conf + "\n"); a domain with
\* a path separator names a file in a directory that does not exist
MainWriteText ==
    /\ pc = "m_write_text"
    /\ \/ /\ cur.domain = cur.key
          /\ avail' = [avail EXCEPT ![cur.key] = Written(cur.text)]
          /\ Goto("m_symlink")
          /\ UNCHANGED raisedIn
       \/ /\ cur.domain = cur.key
          /\ \E f \in {avail[cur.key], File(<<>>)} :
                avail' = [avail EXCEPT ![cur.key] = f]
          /\ MainRaise("write_text", "exception")
       \/ /\ cur.domain # cur.key
          /\ MainRaise("write_text", "exception")
          /\ UNCHANGED avail
    /\ UNCHANGED <<enabled, backup, logdir, cur, valCalls, valOk, reloadCalls,
                   reloadOk, attempts, pre, prev, calls, rvars>>

\* main.py lines 108-111: if not link.exists(): link.symlink_to(dest), an
\* absolute link; over a dangling link symlink_to raises FileExistsError
MainSymlink ==
    /\ pc = "m_symlink"
    /\ IF LinkExists(cur.key)
       THEN /\ Goto("m_validate")
            /\ UNCHANGED <<enabled, raisedIn>>
       ELSE \/ /\ enabled[cur.key] = "none"
               /\ enabled' = [enabled EXCEPT ![cur.key] = "abs"]
               /\ Goto("m_validate")
               /\ UNCHANGED raisedIn
            \/ /\ MainRaise("symlink", "exception")
               /\ UNCHANGED enabled
    /\ UNCHANGED <<avail, backup, logdir, cur, valCalls, valOk, reloadCalls,
                   reloadOk, attempts, pre, prev, calls, rvars>>

\* main.py line 114: subprocess.run(["nginx", "-t"], check=True) raises
\* CalledProcessError when nginx -t fails
MainValidate ==
    /\ pc = "m_validate"
    /\ valCalls' = valCalls + 1
    /\ \E ok \in BOOLEAN :
          /\ valOk' = ok
          /\ IF ok THEN Goto("m_reload") ELSE Return("raised", "validation")
    /\ UNCHANGED <<fsvars, cur, reloadCalls, reloadOk, attempts, raisedIn, pre, prev, calls, rvars>>

\* main.py line 116: subprocess.run(["nginx", "-s", "reload"],
\* check=True); the method returns None
MainReload ==
    /\ pc = "m_reload"
    /\ reloadCalls' = reloadCalls + 1
    /\ \E ok \in BOOLEAN :
          /\ reloadOk' = ok
          /\ IF ok THEN Return("None", "applied") ELSE Return("raised", "reload")
    /\ UNCHANGED <<fsvars, cur, valCalls, valOk, attempts, raisedIn, pre, prev, calls, rvars>>

EntryNext ==
    \/ Call_write_and_enable
    \/ ensure_directories
    \/ MkdirLog
    \/ WriteText
    \/ RemoveExisting
    \/ SymlinkRel
    \/ SymlinkAbs
    \/ SymlinkLn
    \/ Verify
    \/ Validate
    \/ RollbackLink
    \/ RollbackDest
    \/ Reload
    \/ Except
    \/ Call_main_write_and_enable
    \/ MainWriteText
    \/ MainSymlink
    \/ MainValidate
    \/ MainReload

EntrySpec == EntryInit /\ [][EntryNext]_vars

(* ---------------------------------------------------------------------- *)
(* Specification                                                           *)
(* ---------------------------------------------------------------------- *)

Next ==
    \/ Call_write_and_enable
    \/ ensure_directories
    \/ MkdirLog
    \/ WriteText
    \/ RemoveExisting
    \/ SymlinkRel
    \/ SymlinkAbs
    \/ SymlinkLn
    \/ Verify
    \/ Validate
    \/ RollbackLink
    \/ RollbackDest
    \/ Reload
    \/ Except
    \/ Call_delete_config
    \/ DeleteCheck
    \/ DeleteUnlinkEnabled
    \/ DeleteUnlinkAvail
    \/ DeleteBroken
    \/ DeleteValidate
    \/ DeleteReload

Spec == Init /\ [][Next]_vars

TypeOK ==
    /\ enabled \in [Keys -> EnabledKinds]
    /\ logdir \in [Keys -> BOOLEAN]
    /\ result \in {"none", "True", "False", "raised"}
    /\ calls \in 0..MaxCalls

(* ---------------------------------------------------------------------- *)
(* Properties                                                              *)
(* ---------------------------------------------------------------------- *)

\* the last call has returned and was a call of op
Returned(op) == pc = "idle" /\ cur.op = op

\* an entry of sites-enabled that is a symlink to the site's own artifact
OwnLink(e) == e \in {"rel", "abs"}

\* the site is active: artifact present and enabled link resolving to it
Active(k) == avail[k].exists /\ OwnLink(enabled[k])

\* C1 -- Rollback completeness: for a domain with neither an available
\* artifact nor an enabled reference before the call, when nginx -t fails
\* during write_and_enable (and no file-system call of the rollback raises),
\* the call returns False and neither the artifact nor the reference exists.
C1_ValidationFailedFresh ==
    /\ Returned("write_and_enable")
    /\ valCalls = 1 /\ ~valOk
    /\ raisedIn = ""
    /\ ~pre.avail[cur.key].exists
    /\ pre.enabled[cur.key] = "none"

C1_RollbackCompleteness ==
    C1_ValidationFailedFresh =>
        /\ result = "False"
        /\ ~avail[cur.key].exists
        /\ enabled[cur.key] = "none"

C1_Witness ==
    /\ C1_ValidationFailedFresh
    /\ why = "validation"
    /\ ~avail[cur.key].exists

\* C2 -- No broken reference is ever left behind: between calls, no entry of
\* the enabled directory is a symbolic link whose target does not exist
\* (whatever the outcome of each file-system step and external command).
C2_NoBrokenReference ==
    pc = "idle" => \A k \in Keys : ~Dangling(k)

\* C3 -- No regression on reload failure: when nginx -t succeeds and
\* nginx -s reload fails during write_and_enable, the call returns False and
\* the artifact written and the link created by this call are still there.
C3_ReloadFailed ==
    /\ Returned("write_and_enable")
    /\ valCalls = 1 /\ valOk
    /\ reloadCalls = 1 /\ ~reloadOk

C3_NoRegressionOnReloadFailure ==
    C3_ReloadFailed =>
        /\ result = "False"
        /\ avail[cur.key] = Written(cur.text)
        /\ OwnLink(enabled[cur.key])

C3_Witness ==
    /\ C3_ReloadFailed
    /\ Active(cur.key)
    /\ ~pre.avail[cur.key].exists

\* C4 -- Full replacement: whenever write_and_enable returns True, from any
\* prior state of the domain, the artifact holds exactly the text of this
\* call and the enabled path is a symlink resolving to the artifact.
C4_SuccessPostcondition ==
    (Returned("write_and_enable") /\ result = "True") =>
        /\ avail[cur.key] = Written(cur.text)
        /\ OwnLink(enabled[cur.key])
        /\ LinkExists(cur.key)

C4_Witness ==
    /\ Returned("write_and_enable") /\ result = "True"
    /\ pre.avail[cur.key].exists
    /\ pre.avail[cur.key] # Written(cur.text)
    /\ pre.enabled[cur.key] = "file"
    /\ Active(cur.key)

\* the file system with every own-artifact symlink reduced to what it
\* resolves to (relative and absolute link texts name the same file)
Resolved(fs) ==
    [fs EXCEPT !.enabled =
        [k \in Keys |-> IF OwnLink(fs.enabled[k]) THEN "link" ELSE fs.enabled[k]]]

\* C5 -- Activation idempotence: a successful write_and_enable repeated with
\* the same domain and the same text, and succeeding again, leaves the
\* artifacts, enabled entries (as resolved), log directories and backups
\* exactly as the first call left them.
C5_SecondIdenticalCall ==
    /\ Returned("write_and_enable") /\ result = "True"
    /\ prev.op = "write_and_enable" /\ prev.result = "True"
    /\ prev.domain = cur.domain
    /\ prev.text = cur.text

C5_ActivationIdempotence ==
    C5_SecondIdenticalCall => Resolved(FS) = Resolved(pre)

C5_Witness ==
    /\ C5_SecondIdenticalCall
    /\ backup[cur.key].exists
    /\ Active(cur.key)

\* C6 -- Within one write_and_enable call, nginx -s reload is invoked only
\* after nginx -t was invoked in that call and succeeded; nginx -t is invoked
\* only when the artifact exists and the enabled link exists and resolves;
\* after a failed nginx -t the call never invokes reload.
C6_ReloadAfterValidation ==
    cur.op = "write_and_enable" =>
        /\ reloadCalls > 0 => (valCalls > 0 /\ valOk)
        /\ (valCalls > 0 /\ ~valOk) => reloadCalls = 0
        /\ pc = "reload" => (valCalls = 1 /\ valOk)

C6_ValidationAfterInstall ==
    (cur.op = "write_and_enable" /\ valCalls' > valCalls) =>
        /\ avail[cur.key].exists
        /\ OwnLink(enabled[cur.key])
        /\ LinkExists(cur.key)

C6_ValidateThenReload ==
    [](C6_ReloadAfterValidation) /\ [][C6_ValidationAfterInstall]_vars

C6_Witness ==
    /\ Returned("write_and_enable")
    /\ valCalls = 1 /\ valOk
    /\ reloadCalls = 1

\* C7 -- Deactivation tolerance: delete_config for a domain with neither an
\* artifact nor an enabled entry returns False through the not-found return,
\* changes nothing in the file system and invokes neither nginx -t nor reload.
C7_NothingInstalled ==
    /\ Returned("delete_config")
    /\ ~pre.avail[cur.key].exists
    /\ pre.enabled[cur.key] = "none"

C7_DeactivationTolerance ==
    C7_NothingInstalled =>
        /\ result = "False"
        /\ why = "notfound"
        /\ FS = pre
        /\ valCalls = 0
        /\ reloadCalls = 0

C7_Witness ==
    /\ C7_NothingInstalled
    /\ why = "notfound"

\* C8 -- delete_config removes the enabled reference whenever it is a
\* symlink, resolving or dangling, with or without an artifact: after the
\* call (no unlink having raised) there is no entry at the enabled path.
C8_DeleteRemovesAnySymlink ==
    (/\ Returned("delete_config")
     /\ raisedIn = ""
     /\ IsSymlink(pre.enabled[cur.key])) => enabled[cur.key] = "none"

\* C9 -- Deactivation is not undone by later failures: delete_config on an
\* active site (no unlink raising) leaves neither artifact nor reference,
\* whatever nginx -t and reload answer, and reports their failure as False.
C9_DeleteActive ==
    /\ Returned("delete_config")
    /\ raisedIn = ""
    /\ pre.avail[cur.key].exists
    /\ OwnLink(pre.enabled[cur.key])

C9_DeletionNotUndone ==
    C9_DeleteActive =>
        /\ ~avail[cur.key].exists
        /\ enabled[cur.key] = "none"
        /\ valCalls = 1
        /\ (~valOk \/ (reloadCalls = 1 /\ ~reloadOk)) => result = "False"
        /\ (valOk /\ reloadCalls = 1 /\ reloadOk) => result = "True"

C9_Witness ==
    /\ C9_DeleteActive
    /\ valOk /\ reloadCalls = 1 /\ ~reloadOk
    /\ result = "False"

\* C10 -- Link creation fallback order: relative symlink first, absolute
\* symlink only after the relative attempt failed, ln -sf only after both
\* failed; when all three fail the call returns False, the artifact written
\* by the call is removed and neither nginx -t nor reload is invoked.
LinkMethods == <<"rel", "abs", "ln">>

C10_AllLinkMethodsFailed ==
    /\ Returned("write_and_enable")
    /\ raisedIn = ""
    /\ Len(attempts) = 3
    /\ ~attempts[3].ok

C10_LinkFallbackOrder ==
    cur.op = "write_and_enable" =>
        /\ Len(attempts) <= 3
        /\ \A i \in 1..Len(attempts) :
              /\ attempts[i].method = LinkMethods[i]
              /\ i < Len(attempts) => ~attempts[i].ok
        /\ C10_AllLinkMethodsFailed =>
              /\ result = "False"
              /\ ~avail[cur.key].exists
              /\ valCalls = 0
              /\ reloadCalls = 0

C10_Witness ==
    /\ C10_AllLinkMethodsFailed
    /\ why = "link"
    /\ enabled[cur.key] = "none"

\* C11 -- A regular file found at the enabled path is never deleted by
\* write_and_enable: whatever the outcome of the call, its content is
\* afterwards under the backup name <key>.conf.bak or still at the enabled
\* path.
C11_RegularFileAtEnabledPath ==
    /\ Returned("write_and_enable")
    /\ pre.enabled[cur.key] = "file"

C11_RegularFileKept ==
    C11_RegularFileAtEnabledPath =>
        \/ enabled[cur.key] = "file"
        \/ backup[cur.key] = File(RegularContent)

C11_Witness ==
    /\ C11_RegularFileAtEnabledPath
    /\ pre.backup[cur.key] = File(OlderBackupContent)
    /\ backup[cur.key] = File(RegularContent)
    /\ why = "validation"
    /\ enabled[cur.key] = "none"

\* C12 -- Every write_and_enable call ends by returning True or False to its
\* caller, whichever step fails; no exception leaves the method.
C12_AlwaysReturnsResult ==
    Returned("write_and_enable") => result \in {"True", "False"}

\* the return statements of write_and_enable that report a defined failure:
\* WriteFailed, LinkFailed, PostconditionViolated, ValidationFailed,
\* ReloadFailed
FailureKinds == {"exception", "link", "nolink", "validation", "reload"}

WellFormed(st) == st.cfg.mode = "proxy" => st.cfg.proxy_pass # ""

\* C14 -- list_configs never raises, whatever the entries matching *.conf
\* are: every entry seen in the directory gets a summary, in order, and the
\* summary of an entry whose text cannot be read carries the unknown marker
\* in its extracted fields.
C14_ListNeverRaises ==
    stage = "listed" =>
        /\ ~listing.raised
        /\ Len(listing.result) = Len(listing.seen)
        /\ \A i \in 1..Len(listing.seen) :
              /\ listing.result[i].name = listing.seen[i].name
              /\ listing.seen[i].kind # "text" =>
                    (listing.result[i].domain = "-" /\ listing.result[i].port = "-")

\* C15 -- a well-formed SiteConfig that was rendered, stored and listed is
\* reported with its own domain, its own listening port, type proxy exactly
\* when its mode is proxy, and ssl exactly when TLS was enabled.
C15_RenderRegistryRoundTrip ==
    (stage = "listed" /\ ~listing.raised /\ WellFormed(site)) =>
        \E i \in 1..Len(listing.result) :
            /\ listing.result[i].name = artifact.name
            /\ listing.result[i].domain = Join(site.domain)
            /\ listing.result[i].port = site.cfg.listen
            /\ listing.result[i].type =
                  (IF site.cfg.mode = "proxy" THEN "proxy" ELSE "static")
            /\ listing.result[i].ssl = site.use_ssl

\* C16 (as stated) -- _sanitize_domain returns the name of the same length
\* in which every character outside [A-Za-z0-9._-] is replaced by "_" and
\* every character inside that set is kept.
C16_SanitizeAsciiOnly ==
    stage = "named" =>
        /\ Len(safename) = Len(rawname)
        /\ \A i \in 1..Len(rawname) :
              IF rawname[i] \in AsciiWordChars \cup {".", "-"}
              THEN safename[i] = rawname[i]
              ELSE safename[i] = "_"

\* C16 (amended) -- _sanitize_domain returns the name of the same length in
\* which every character that is neither a word character (a letter or a
\* digit of any script, or "_") nor "." nor "-" is replaced by "_", and
\* every other character is kept.
C16_SanitizeKeepsWordChars ==
    stage = "named" =>
        /\ Len(safename) = Len(rawname)
        /\ \A i \in 1..Len(rawname) :
              /\ rawname[i] \in WordChars \cup {".", "-"} => safename[i] = rawname[i]
              /\ rawname[i] \notin WordChars \cup {".", "-"} => safename[i] = "_"

C16_Witness ==
    /\ stage = "named"
    /\ rawname = <<"c", "a", "f", "é", "/", "x">>
    /\ safename = <<"c", "a", "f", "é", "_", "x">>

\* the main server block of a rendered text: the lines from the last
\* "server {" on
MainBlock(lines) ==
    LET starts == { i \in 1..Len(lines) : lines[i] = <<"server", "{">> }
        first == CHOOSE i \in starts : \A j \in starts : j <= i
    IN  SubSeq(lines, first, Len(lines))

\* a line that carries one of the directives of SSL_CONFIG_BLOCK; of the
\* listen lines only the one with the ssl parameter
IsTLSLine(line) ==
    /\ line # <<>>
    /\ \E k \in 1..Len(SSL_CONFIG_BLOCK("")) : line[1] = SSL_CONFIG_BLOCK("")[k][1]
    /\ line[1] = "listen" => \E t \in 1..Len(line) : line[t] = "ssl"

IsLocationStart(line) == line # <<>> /\ line[1] = "location"

\* C17 (as stated) -- in the main block listen and server_name come first,
\* then the TLS directives, then the body and the location blocks: no
\* location block precedes a TLS directive.
C17_TlsBeforeLocations ==
    stage = "built" =>
        LET b == MainBlock(full_conf)
        IN  /\ b[2][1] = "listen"
            /\ b[3][1] = "server_name"
            /\ \A i, j \in 1..Len(b) :
                  (IsLocationStart(b[i]) /\ IsTLSLine(b[j])) => j < i

\* C17 (amended) -- in the main block listen and server_name come first,
\* then the body directives and the location blocks, and the TLS
\* directives, present exactly when TLS is enabled, are the last lines of
\* the block: no TLS directive precedes a location block.
C17_TlsAfterLocations ==
    stage = "built" =>
        LET b == MainBlock(full_conf)
        IN  /\ b[1] = <<"server", "{">>
            /\ b[2] = <<"listen", site.cfg.listen, ";">>
            /\ b[3] = <<"server_name", Join(site.domain), ";">>
            /\ b[Len(b)] = <<"}">>
            /\ site.use_ssl <=> \E j \in 1..Len(b) : IsTLSLine(b[j])
            /\ \A i, j \in 1..Len(b) :
                  (IsLocationStart(b[i]) /\ IsTLSLine(b[j])) => i < j
            /\ \A j \in 1..Len(b) :
                  IsTLSLine(b[j]) => \A k \in j..(Len(b) - 1) : IsTLSLine(b[k])

C17_Witness ==
    /\ stage = "built"
    /\ site.use_ssl /\ site.add_redirect
    /\ site.cfg.mode = "proxy"
    /\ Len(site.locations) = 2
    /\ site.existing = {OptionsSslPath}
    /\ \E j \in 1..Len(full_conf) : full_conf[j] = <<"include", OptionsSslPath, ";">>

\* the directives of the lines of a location body, in order: name and words
DirectivesOf(body) ==
    LET ds == SelectSeq(body, LAMBDA l : l # <<>> /\ l[Len(l)] = ";")
    IN  [i \in 1..Len(ds) |-> <<ds[i][1], SubSeq(ds[i], 2, Len(ds[i]) - 1)>>]

\* the location blocks read back from rendered lines, in order of appearance
RECURSIVE LocationsOf(_)
LocationsOf(b) ==
    IF b = <<>> THEN <<>>
    ELSE IF IsLocationStart(Head(b))
    THEN LET close == CHOOSE k \in 2..Len(b) :
                          /\ b[k] = <<"}">>
                          /\ \A m \in 2..(k - 1) : b[m] # <<"}">>
         IN  << [path |-> SubSeq(Head(b), 2, Len(Head(b)) - 1),
                 directives |-> DirectivesOf(SubSeq(b, 2, close - 1))] >>
             \o LocationsOf(SubSeq(b, close + 1, Len(b)))
    ELSE LocationsOf(Tail(b))

\* location blocks that build writes by itself: the proxy location, or
\* the two fixed locations of a static site
FixedLocations(st) == IF st.cfg.mode = "proxy" THEN 1 ELSE 2

\* C18 -- the main block holds, after the locations the mode brings, one
\* location block per extraLocations entry in input order, each with exactly
\* the entry's directives in input order, repeated names included.
C18_LocationOrder ==
    stage = "built" =>
        LET locs == LocationsOf(MainBlock(full_conf))
            k == FixedLocations(site)
        IN  /\ Len(locs) = k + Len(site.locations)
            /\ \A i \in 1..Len(site.locations) :
                  /\ locs[k + i].path = <<site.locations[i].path>>
                  /\ locs[k + i].directives =
                        [j \in 1..Len(site.locations[i].directives) |->
                            << site.locations[i].directives[j][1],
                               << site.locations[i].directives[j][2] >> >>]

C18_Witness ==
    /\ stage = "built"
    /\ Len(site.locations) = 2
    /\ site.locations[1].path = "/img" /\ site.locations[2].path = "/img"
    /\ site.locations[1].directives # site.locations[2].directives
    /\ LET locs == LocationsOf(MainBlock(full_conf))
       IN  /\ Len(locs) = 4
           /\ locs[3].directives[1] = <<"add_header", <<"X-A 1">>>>
           /\ locs[3].directives[2] = <<"add_header", <<"X-A 2">>>>
           /\ locs[4].directives[1] = <<"add_header", <<"X-A 2">>>>

\* the lines of a server block that lie outside its location blocks
RECURSIVE ServerLevel(_)
ServerLevel(b) ==
    IF b = <<>> THEN <<>>
    ELSE IF IsLocationStart(Head(b))
    THEN LET close == CHOOSE k \in 2..Len(b) :
                          /\ b[k] = <<"}">>
                          /\ \A m \in 2..(k - 1) : b[m] # <<"}">>
         IN  ServerLevel(SubSeq(b, close + 1, Len(b)))
    ELSE <<Head(b)>> \o ServerLevel(Tail(b))

HasDirective(lines, names) ==
    \E i \in 1..Len(lines) : lines[i] # <<>> /\ lines[i][1] \in names

\* an extraLocations entry carries a directive of one of the given names
LocationsUse(locations, names) ==
    \E i \in 1..Len(locations) : \E j \in 1..Len(locations[i].directives) :
        locations[i].directives[j][1] \in names

\* C19 (as stated) -- a rendered site contains either root/index static
\* directives or a proxy_pass directive, never both.
C19_StaticXorProxy ==
    stage = "built" =>
        (HasDirective(full_conf, {"root", "index"})
            # HasDirective(full_conf, {"proxy_pass"}))

\* C19 (amended) -- the server-level root/index directives are rendered
\* exactly for a static site and the mode's own proxy location exactly for a
\* proxy site, never both; the directives of extraLocations are rendered as
\* given, so the rendered site contains exactly one of the two kinds when no
\* extraLocations entry carries a root, index or proxy_pass directive.
C19_ModeDirectivesExclusive ==
    stage = "built" =>
        LET b == MainBlock(full_conf)
            locs == LocationsOf(b)
            own == SubSeq(locs, 1, Len(locs) - Len(site.locations))
            static == HasDirective(ServerLevel(b), {"root", "index"})
            proxy == \E i \in 1..Len(own) : \E j \in 1..Len(own[i].directives) :
                        own[i].directives[j][1] = "proxy_pass"
        IN  /\ static <=> site.cfg.mode = "static"
            /\ proxy <=> site.cfg.mode = "proxy"
            /\ ~(static /\ proxy)
            /\ ~LocationsUse(site.locations, {"root", "index", "proxy_pass"}) =>
                  (HasDirective(full_conf, {"root", "index"})
                      # HasDirective(full_conf, {"proxy_pass"}))

C19_Witness ==
    /\ stage = "built"
    /\ site.cfg.mode = "static"
    /\ Len(site.locations) = 1
    /\ site.locations[1].directives[1][1] = "proxy_pass"
    /\ HasDirective(ServerLevel(MainBlock(full_conf)), {"root", "index"})
    /\ HasDirective(full_conf, {"proxy_pass"})

\* C20 -- build rejects a proxy site with an empty upstream URL: no text is
\* produced for it, so nothing is written, activated or listed; only
\* well-formed SiteConfigs get past the renderer.
C20_EmptyUpstreamRejected ==
    stage \in {"built", "activated", "listed"} => WellFormed(site)

\* the lines of the whole TLS directive sequence of a domain, in the
\* order of SSL_CONFIG_BLOCK
TlsSequence(domain) ==
    [k \in 1..Len(SSL_CONFIG_BLOCK(domain)) |->
        <<SSL_CONFIG_BLOCK(domain)[k][1]>> \o SSL_CONFIG_BLOCK(domain)[k][2] \o <<";">>]

\* directives whose value is the path of a file
FileDirectives == {"ssl_certificate", "ssl_certificate_key", "include", "ssl_dhparam"}

\* C21 (as stated) -- with TLS enabled the main block holds the TLS
\* directive sequence in its order without the directives (certificate, key,
\* include, DH parameters) whose file does not exist; all others are there.
C21_MissingFileDirectivesOmitted ==
    (stage = "built" /\ site.use_ssl) =>
        SelectSeq(MainBlock(full_conf), IsTLSLine)
          = SelectSeq(TlsSequence(Join(site.domain)),
                      LAMBDA l : l[1] \in FileDirectives => l[2] \in site.existing)

\* C21 (amended) -- with TLS enabled the main block holds the TLS directive
\* sequence in its order without the include and ssl_dhparam directives
\* whose file does not exist; every other directive, ssl_certificate and
\* ssl_certificate_key included, is there whether or not its file exists.
C21_SharedFileDirectivesOmitted ==
    (stage = "built" /\ site.use_ssl) =>
        SelectSeq(MainBlock(full_conf), IsTLSLine)
          = SelectSeq(TlsSequence(Join(site.domain)),
                      LAMBDA l : l[1] \in {"include", "ssl_dhparam"} =>
                                     l[2] \in site.existing)

C21_Witness ==
    /\ stage = "built"
    /\ site.use_ssl
    /\ site.existing = {OptionsSslPath}
    /\ LET b == MainBlock(full_conf)
       IN  /\ \E j \in 1..Len(b) : b[j] = <<"include", OptionsSslPath, ";">>
           /\ ~HasDirective(b, {"ssl_dhparam"})
           /\ \E j \in 1..Len(b) :
                 b[j] = <<"ssl_certificate", FullchainPath(Join(site.domain)), ";">>

(* ---------------------------------------------------------------------- *)
(* Activation engine: step order, frame and command order (under Spec)     *)
(* ---------------------------------------------------------------------- *)

\* a call is under way or has returned, none of its file-system steps has
\* raised, and its domain was absent or active when it began
C22_CleanCallNoStepFailed ==
    /\ cur.op \in {"write_and_enable", "delete_config"}
    /\ raisedIn = ""
    /\ \/ ~pre.avail[cur.key].exists /\ pre.enabled[cur.key] = "none"
       \/ pre.avail[cur.key].exists /\ OwnLink(pre.enabled[cur.key])

\* C22 -- the artifact is written before the link is made and every removal
\* (rollback, deletion) takes the link away before the artifact: for a
\* domain absent or active before the call, with no file-system step
\* failing, after every step of write_and_enable and delete_config the
\* enabled path holds no symlink whose target is missing, and an own link
\* is there only while the artifact is.
C22_NoBrokenReferenceBetweenSteps ==
    C22_CleanCallNoStepFailed =>
        /\ ~Dangling(cur.key)
        /\ OwnLink(enabled[cur.key]) => avail[cur.key].exists
        /\ pc \in {"symlink_rel", "symlink_abs", "symlink_ln"} =>
              avail[cur.key] = Written(cur.text)
        /\ pc \in {"rollback_dest", "d_unlink_avail"} => enabled[cur.key] = "none"

C22_Witness ==
    /\ C22_CleanCallNoStepFailed
    /\ cur.op = "delete_config"
    /\ pc = "d_unlink_avail"
    /\ OwnLink(pre.enabled[cur.key])
    /\ enabled[cur.key] = "none"
    /\ avail[cur.key].exists
    /\ prev.op = "write_and_enable" /\ prev.why = "validation"

\* write_and_enable has returned after nginx -t rejected a new text for a
\* domain that was active with another text; no file-system step raised
C23_ReactivationRejected ==
    /\ Returned("write_and_enable")
    /\ pre.avail[cur.key].exists /\ OwnLink(pre.enabled[cur.key])
    /\ pre.avail[cur.key] # Written(cur.text)
    /\ valCalls = 1 /\ ~valOk
    /\ raisedIn = ""

\* C23 -- when re-activation of an active domain with a new text fails
\* validation, the call returns False with neither the artifact nor the
\* enabled reference left (the previous text is gone) and without a reload.
C23_PreviousVersionNotRestored ==
    C23_ReactivationRejected =>
        /\ result = "False"
        /\ ~avail[cur.key].exists
        /\ enabled[cur.key] = "none"
        /\ reloadCalls = 0

C23_Witness ==
    /\ C23_ReactivationRejected
    /\ pre.avail[cur.key] = Written(<< <<"T1">> >>)
    /\ cur.text = << <<"T2">> >>
    /\ avail[cur.key] = NoFile
    /\ enabled[cur.key] = "none"

\* C24 -- a write_and_enable or delete_config call for key k, at every step
\* and whatever its outcome, leaves the artifact, the enabled entry and the
\* backup entry of every other key as they were when the call began.
C24_PerDomainFrame ==
    cur.op \in {"write_and_enable", "delete_config"} =>
        \A k \in Keys \ {cur.key} :
            /\ avail[k] = pre.avail[k]
            /\ enabled[k] = pre.enabled[k]
            /\ backup[k] = pre.backup[k]

C24_Witness ==
    /\ pc = "idle"
    /\ cur.op = "delete_config" /\ result = "True"
    /\ prev.op = "write_and_enable" /\ prev.result = "True"
    /\ prev.domain # cur.domain
    /\ _sanitize_domain(prev.domain) # cur.key
    /\ FS # pre
    /\ \E k \in Keys \ {cur.key} : avail[k].exists /\ OwnLink(enabled[k])

(* ---------------------------------------------------------------------- *)
(* The two activation implementations (under EntrySpec)                    *)
(* ---------------------------------------------------------------------- *)

\* the two write_and_enable implementations have each been run once, for
\* two domains that need no sanitization and had no entry, the write and
\* the link creation succeeded in both, and nginx -t and nginx -s reload
\* came out the same way in both
C25_SameOutcomes ==
    /\ pc = "idle"
    /\ {prev.op, cur.op} = {"write_and_enable", "main.write_and_enable"}
    /\ prev.domain = _sanitize_domain(prev.domain)
    /\ cur.domain = cur.key
    /\ prev.domain # cur.domain
    /\ why = prev.why
    /\ why \in {"applied", "validation", "reload"}

\* C25 -- main.py's and nginx/manager.py's write_and_enable leave the same
\* available and enabled entries for their domain, for every combination
\* of validation and reload outcomes.
C25_ImplementationsAgree ==
    C25_SameOutcomes =>
        /\ avail[prev.domain].exists = avail[cur.key].exists
        /\ OwnLink(enabled[prev.domain]) = OwnLink(enabled[cur.key])

(* ---------------------------------------------------------------------- *)
(* delete_config: order of the external commands (under Spec)              *)
(* ---------------------------------------------------------------------- *)

\* within a delete_config call reload runs only after a successful nginx -t;
\* a failed nginx -t ends the call with False and without a reload
C26_DeleteReloadNeedsValidation ==
    cur.op = "delete_config" =>
        /\ reloadCalls > 0 => (valCalls = 1 /\ valOk)
        /\ pc = "d_reload" => (valCalls = 1 /\ valOk)
        /\ (valCalls > 0 /\ ~valOk) =>
              (pc = "idle" /\ result = "False" /\ reloadCalls = 0)

\* nginx -t is run once the removals are done: the artifact is gone and the
\* enabled path holds nothing that exists
C26_DeleteValidationAfterRemovals ==
    (cur.op = "delete_config" /\ valCalls' > valCalls) =>
        /\ ~avail[cur.key].exists
        /\ ~LinkExists(cur.key)
        /\ raisedIn = ""

\* C26 -- in delete_config nginx -t is invoked after the removals and
\* nginx -s reload only if that nginx -t succeeded; when it fails the call
\* returns False and the server is not reloaded in that call.
C26_DeleteValidateThenReload ==
    [](C26_DeleteReloadNeedsValidation) /\ [][C26_DeleteValidationAfterRemovals]_vars

C26_Witness ==
    /\ Returned("delete_config")
    /\ pre.avail[cur.key].exists /\ OwnLink(pre.enabled[cur.key])
    /\ ~avail[cur.key].exists /\ enabled[cur.key] = "none"
    /\ valCalls = 1 /\ ~valOk
    /\ reloadCalls = 0
    /\ result = "False" /\ why = "validation"

(* ---------------------------------------------------------------------- *)
(* create_config: return to the menu (under RenderSpec)                    *)
(* ---------------------------------------------------------------------- *)

\* C27 -- create_config always returns normally to the menu loop: on every
\* path it calls only methods that NginxManager defines and no unhandled
\* error ends it, also after a successful TLS activation for which the user
\* accepts the certificate issuance.
C27_CreateConfigReturnsToMenu ==
    stage # "crashed"

(* ---------------------------------------------------------------------- *)
(* Path confinement (under RenderSpec)                                     *)
(* ---------------------------------------------------------------------- *)

\* the path names an entry directly inside dir
DirectChild(path, dir) ==
    LET entry == ResolvePath(path, <<>>)
    IN  Len(entry) = Len(dir) + 1 /\ SubSeq(entry, 1, Len(dir)) = dir

\* C28 -- for every domain string the sanitized key holds no path
\* separator and every path the manager builds from it is a direct child of
\* the available, the enabled or the logs directory.
C28_PathsConfined ==
    stage = "named" =>
        /\ \A i \in 1..Len(safename) : safename[i] # "/"
        /\ \A p \in ManagerPaths(safename) : DirectChild(p.path, p.dir)

(* ---------------------------------------------------------------------- *)
(* Redirect block (under RenderSpec)                                       *)
(* ---------------------------------------------------------------------- *)

\* the server block that opens at line i, up to its closing brace at column
\* 0 (the first "}" that closes no location block)
ServerBlockAt(lines, i) ==
    LET ends == { k \in (i + 1)..Len(lines) :
                    /\ lines[k] = <<"}">>
                    /\ \A j \in (i + 1)..(k - 1) :
                          IsLocationStart(lines[j]) =>
                              \E m \in (j + 1)..(k - 1) : lines[m] = <<"}">> }
        last == CHOOSE k \in ends : \A m \in ends : k <= m
    IN  SubSeq(lines, i, last)

IsRedirectBlock(block) == HasDirective(block, {"return"})

\* C29 -- the text create_config hands to write_and_enable holds a redirect
\* server block exactly when TLS was enabled and the redirect chosen; it is
\* then the first block, the main block follows it, and it holds no TLS
\* directive and no location block.
C29_RedirectBlockFirst ==
    stage = "built" =>
        LET starts == { i \in 1..Len(full_conf) : full_conf[i] = <<"server", "{">> }
            wanted == site.use_ssl /\ site.add_redirect
        IN  /\ HasDirective(full_conf, {"return"}) <=> wanted
            /\ Cardinality(starts) = (IF wanted THEN 2 ELSE 1)
            /\ ~IsRedirectBlock(MainBlock(full_conf))
            /\ wanted =>
                  LET first == ServerBlockAt(full_conf, 1)
                  IN  /\ full_conf[1] = <<"server", "{">>
                      /\ IsRedirectBlock(first)
                      /\ first[3] = <<"server_name", Join(site.domain), ";">>
                      /\ \A j \in 1..Len(first) :
                            ~IsTLSLine(first[j]) /\ ~IsLocationStart(first[j])
                      /\ \A i \in starts \ {1} : i > Len(first)

C29_Witness ==
    /\ stage = "built"
    /\ site.use_ssl /\ site.add_redirect
    /\ Len(site.locations) = 1
    /\ full_conf[1] = <<"server", "{">>
    /\ full_conf[6] = <<"return", "301", "https://$host$request_uri", ";">>
    /\ HasDirective(MainBlock(full_conf), {"ssl_certificate"})

====
